---- MODULE Spec2Model ----
(***************************************************************************)
(* Model of webpokus.py, the basketball statistics viewer.                 *)
(*                                                                         *)
(* The program is a Streamlit script: every interaction re-runs main(),    *)
(* which renders exactly one page from the current contents of the SQLite  *)
(* database.  The state is the database (tables Teams, Officials, Shots,   *)
(* and whether the court image file exists) together with what the last    *)
(* run of each page produced.  One action models one whole run of a page.  *)
(*                                                                         *)
(* Numbers.  SQL AVG and the percentages are rationals; a mean is kept as  *)
(* the pair <<sum, count>> and compared by cross-multiplication.  Shot     *)
(* coordinates are fixed-point integers: a raw x_coord is counted in       *)
(* 1/RawUnitX and a raw y_coord in 1/RawUnitY of the database unit, a      *)
(* scaled coordinate in 1/PixelUnit of a pixel.  The raw coordinates       *)
(* offered are ones the scale factors 2.8 and 2.61 map to a whole number   *)
(* of 1/PixelUnit pixels, so the arithmetic below is exact; distances are  *)
(* compared by their squares.                                              *)
(***************************************************************************)
EXTENDS Integers, Sequences, FiniteSets, TLC

VARIABLES
    tables,      \* names of the tables that exist in database.db
    teams,       \* rows of table Teams
    officials,   \* rows of table Officials
    shots,       \* rows of table Shots, in rowid order
    courtImage,  \* os.path.exists("fiba_courtonly.jpg")
    boxscore,    \* what the last run of "Team Season Boxscore" showed
    h2h,         \* what the last run of "Head-to-Head Comparison" showed
    referee,     \* what the last run of "Referee Stats" showed
    chart        \* what the last run of "Shot Chart" showed

vars == <<tables, teams, officials, shots, courtImage, boxscore, h2h, referee, chart>>

(***************************************************************************)
(* Bounds of the model.                                                    *)
(***************************************************************************)
MaxTeamRows == 4
MaxOfficialRows == 2
MaxShots == 2

(***************************************************************************)
(* Generic helpers.                                                        *)
(***************************************************************************)
\* SQL NULL / Python None
NULL == "<NULL>"

RECURSIVE SumOver(_, _)
\* sum of f[x] over the finite set S
SumOver(S, f) ==
    IF S = {} THEN 0
    ELSE LET x == CHOOSE y \in S : TRUE
         IN  f[x] + SumOver(S \ {x}, f)

\* the rational a[1]/a[2] equals the rational b[1]/b[2]
RatEq(a, b) == a[1] * b[2] = b[1] * a[2]

\* the rational a[1]/a[2] is greater than the rational b[1]/b[2]
RatGt(a, b) == a[1] * b[2] > b[1] * a[2]

\* subsets of S with at most n elements
SubsetsUpTo(S, n) == {T \in SUBSET S : Cardinality(T) <= n}

RECURSIVE SeqsUpTo(_, _)
\* sequences over S of length at most n
SeqsUpTo(S, n) ==
    IF n = 0 THEN {<<>>}
    ELSE LET shorter == SeqsUpTo(S, n - 1)
         IN  shorter \cup {Append(s, x) : s \in {t \in shorter : Len(t) = n - 1}, x \in S}

(***************************************************************************)
(* Table Teams and fetch_team_data.                                        *)
(***************************************************************************)
\* game_id IS NULL: the game of a row was not recorded (game ids are positive)
NoGameId == 0 - 1

\* one row of Teams for team n playing as side t in game g; the box-score
\* numbers are a fixed function of the key so that the rows stay few
TeamRow(n, t, g) ==
    [game_id |-> g, name |-> n, tm |-> t,
     p1_score |-> 15 + 5 * g, p2_score |-> 20 + t, p3_score |-> 18,
     p4_score |-> IF n = "Lions" THEN 27 ELSE 17,
     fouls_total |-> 10 + 2 * g + t, free_throws_made |-> 8 + g,
     field_goals_made |-> 25 + t, assists |-> 12 + 3 * g,
     rebounds_total |-> 30 + g + t, steals |-> 5 + t,
     turnovers |-> 9 + g, blocks |-> g]

\* the rows a Teams table is drawn from: four games between Lions and Tigers,
\* the away side marked tm = 2 in games 1 and 2 and tm = 0 in games 3 and 4
\* (column tm marks the home side with 1; the query takes every other value
\* for away), one row of game 5 without a team name, and one row of Lions
\* without a game id
TeamRowPool ==
    {TeamRow("Lions", 1, 1), TeamRow("Tigers", 2, 1),
     TeamRow("Tigers", 1, 2), TeamRow("Lions", 2, 2),
     TeamRow("Tigers", 1, 3), TeamRow("Lions", 0, 3),
     TeamRow("Lions", 1, 4), TeamRow("Tigers", 0, 4),
     TeamRow(NULL, 2, 5),
     [TeamRow("Lions", 2, 6) EXCEPT !.game_id = NoGameId]}

\* p1_score + p2_score + p3_score + p4_score
Points(r) == r.p1_score + r.p2_score + r.p3_score + r.p4_score

\* CASE WHEN tm = 1 THEN 'Home' ELSE 'Away' END
Location(tm) == IF tm = 1 THEN "Home" ELSE "Away"

\* the groups of GROUP BY name, tm
GroupKeys(T) == {<<r.name, r.tm>> : r \in T}

\* the rows of one GROUP BY group
GroupRows(T, k) == {r \in T : r.name = k[1] /\ r.tm = k[2]}

\* SQL AVG over a group G of the expression with values f[r]: <<sum, count>>
Avg(G, f) == <<SumOver(G, f), Cardinality(G)>>

\* the columns of the result after Team, Location and Games_Played
NumericCols == {"Avg_Points", "Avg_Fouls", "Avg_Free_Throws", "Avg_Field_Goals",
                "Avg_Assists", "Avg_Rebounds", "Avg_Steals", "Avg_Turnovers",
                "Avg_Blocks"}

\* the SELECT list evaluated on the group with key k; COUNT(game_id) counts the
\* rows whose game_id is not NULL
AggRow(T, k) ==
    LET G == GroupRows(T, k)
    IN  [Team |-> k[1],
         Location |-> Location(k[2]),
         Games_Played |-> Cardinality({r \in G : r.game_id # NoGameId}),
         Avg_Points |-> Avg(G, [r \in G |-> Points(r)]),
         Avg_Fouls |-> Avg(G, [r \in G |-> r.fouls_total]),
         Avg_Free_Throws |-> Avg(G, [r \in G |-> r.free_throws_made]),
         Avg_Field_Goals |-> Avg(G, [r \in G |-> r.field_goals_made]),
         Avg_Assists |-> Avg(G, [r \in G |-> r.assists]),
         Avg_Rebounds |-> Avg(G, [r \in G |-> r.rebounds_total]),
         Avg_Steals |-> Avg(G, [r \in G |-> r.steals]),
         Avg_Turnovers |-> Avg(G, [r \in G |-> r.turnovers]),
         Avg_Blocks |-> Avg(G, [r \in G |-> r.blocks])]

RECURSIVE OrderGroups(_, _)
\* the orders in which the groups K can be returned: ORDER BY Avg_Points DESC,
\* groups of equal average in whatever order the engine emits them
OrderGroups(T, K) ==
    IF K = {} THEN {<<>>}
    ELSE LET top == {k \in K : \A o \in K :
                       ~RatGt(AggRow(T, o).Avg_Points, AggRow(T, k).Avg_Points)}
         IN  UNION {{<<k>> \o rest : rest \in OrderGroups(T, K \ {k})} : k \in top}

\* table_exists(table_name)
table_exists(name) == name \in tables

\* fetch_team_data(): the aggregate tables the call can return, each a sequence
\* of rows (row label i - 1)
fetch_team_data ==
    IF ~table_exists("Teams") THEN {<<>>}
    ELSE {[i \in 1..Len(order) |-> AggRow(teams, order[i])] :
            order \in OrderGroups(teams, GroupKeys(teams))}

(***************************************************************************)
(* main(): pages "Team Season Boxscore" and "Head-to-Head Comparison".     *)
(***************************************************************************)
\* nothing rendered yet
NoTable == [index |-> {}, columns |-> <<>>]

NoBars == [s \in {} |-> <<0, 1>>]

BoxscoreIdle == [shown |-> "none", df |-> <<>>, messages |-> {}]

H2HIdle == [outcome |-> "none", team1 |-> NULL, team2 |-> NULL, messages |-> {},
            table1 |-> NoTable, table2 |-> NoTable, bars1 |-> NoBars, bars2 |-> NoBars]

\* df.empty
DfEmpty(df) == Len(df) = 0

\* df["Team"].unique()
team_options(df) == {df[i].Team : i \in 1..Len(df)}

\* one element of the comparison df["Team"] == team: None equals nothing
PdEq(cell, team) == cell # NULL /\ team # NULL /\ cell = team

\* Python's team1 != team2 on the selected values (None != None is False)
PyNotEqual(team1, team2) == team1 # team2

\* df[df["Team"] == team]: the positions of the selected rows, in order
SelectTeam(df, team) == SelectSeq([i \in 1..Len(df) |-> i], LAMBDA i : PdEq(df[i].Team, team))

\* df[...][numeric_cols].T.rename(columns={index[0]: "Value"}): one column per
\* selected row, indexed by stat name; only the first column is renamed
TransposeRename(df, rows) ==
    [index |-> NumericCols,
     columns |-> [j \in 1..Len(rows) |->
                    [label |-> IF j = 1 THEN "Value" ELSE ToString(rows[j] - 1),
                     data |-> [c \in NumericCols |-> df[rows[j]][c]]]]]

\* left.align(right, join='outer', axis=0, fill_value=0), the left result
Align(left, right) ==
    LET idx == left.index \cup right.index
    IN  [index |-> idx,
         columns |-> [j \in 1..Len(left.columns) |->
                        [label |-> left.columns[j].label,
                         data |-> [s \in idx |-> IF s \in left.index
                                                 THEN left.columns[j].data[s]
                                                 ELSE <<0, 1>>]]]]

\* px.bar(table, x="Stat", y="Value"): one bar per stat, from column "Value"
BarChart(table) ==
    LET v == CHOOSE j \in 1..Len(table.columns) : table.columns[j].label = "Value"
    IN  [s \in table.index |-> table.columns[v].data[s]]

\* the head-to-head branch of main() for the selection team1, team2
HeadToHead(df, team1, team2) ==
    IF ~PyNotEqual(team1, team2)
    THEN [H2HIdle EXCEPT !.outcome = "nothing", !.team1 = team1, !.team2 = team2]
    ELSE LET rows1 == SelectTeam(df, team1)
             rows2 == SelectTeam(df, team2)
         IN  IF Len(rows1) = 0 \/ Len(rows2) = 0
             THEN [H2HIdle EXCEPT !.outcome = "error", !.team1 = team1, !.team2 = team2,
                                  !.messages = {"One or both teams have no recorded stats."}]
             ELSE LET t1 == TransposeRename(df, rows1)
                      t2 == TransposeRename(df, rows2)
                      a1 == Align(t1, t2)
                      a2 == Align(t2, t1)
                  IN  [outcome |-> "charts", team1 |-> team1, team2 |-> team2,
                       messages |-> {}, table1 |-> a1, table2 |-> a2,
                       bars1 |-> BarChart(a1), bars2 |-> BarChart(a2)]

\* page "Team Season Boxscore"
BoxscorePage ==
    /\ \E df \in fetch_team_data :
         boxscore' =
             IF DfEmpty(df)
             THEN [shown |-> "warning", df |-> df,
                   messages |-> IF table_exists("Teams")
                                THEN {"No team data available."}
                                ELSE {"'Teams' table not found in the database.",
                                      "No team data available."}]
             ELSE [shown |-> "table", df |-> df, messages |-> {}]
    /\ UNCHANGED <<tables, teams, officials, shots, courtImage, h2h, referee, chart>>

\* page "Head-to-Head Comparison" when there is no team data
HeadToHeadNoData ==
    /\ \E df \in fetch_team_data : DfEmpty(df)
    /\ h2h' = [H2HIdle EXCEPT !.outcome = "warning",
                              !.messages = IF table_exists("Teams")
                                           THEN {"No team data available."}
                                           ELSE {"'Teams' table not found in the database.",
                                                 "No team data available."}]
    /\ UNCHANGED <<tables, teams, officials, shots, courtImage, boxscore, referee, chart>>

\* page "Head-to-Head Comparison" with two teams picked in the select boxes
HeadToHeadPage ==
    /\ \E df \in fetch_team_data :
         /\ ~DfEmpty(df)
         /\ \E team1 \in team_options(df), team2 \in team_options(df) :
              h2h' = HeadToHead(df, team1, team2)
    /\ UNCHANGED <<tables, teams, officials, shots, courtImage, boxscore, referee, chart>>

(***************************************************************************)
(* The team pages: the database holds any Teams table within the bounds.   *)
(***************************************************************************)
RefereeIdle == [shown |-> "none", df |-> <<>>, messages |-> {}]

ChartIdle == [status |-> "none"]

InitTeams ==
    /\ tables \in {{}, {"Teams"}}
    /\ teams \in IF "Teams" \in tables THEN SubsetsUpTo(TeamRowPool, MaxTeamRows) ELSE {{}}
    /\ officials = {}
    /\ shots = <<>>
    /\ courtImage = TRUE
    /\ boxscore = BoxscoreIdle
    /\ h2h = H2HIdle
    /\ referee = RefereeIdle
    /\ chart = ChartIdle

NextTeams == BoxscorePage \/ HeadToHeadNoData \/ HeadToHeadPage

SpecTeams == InitTeams /\ [][NextTeams]_vars

(***************************************************************************)
(* Table Officials, fetch_referee_data and page "Referee Stats".           *)
(***************************************************************************)
FirstNames == {"Ann"}

LastNames == {"Lee", "Ray"}

Roles == {"referee", "commissioner", "Commissioner"}

\* the games that have officials
OfficialGameIds == {1, 2}

OfficialRowPool ==
    [game_id : OfficialGameIds, first_name : FirstNames, last_name : LastNames, role : Roles]

\* the Teams rows offered together with officials: both sides of those games
RefereeTeamRowPool == {r \in TeamRowPool : r.game_id \in OfficialGameIds}

\* ASCII lower-casing, as LIKE applies it, on the roles of the pool
Lower(text) == IF text = "Commissioner" THEN "commissioner" ELSE text

\* o.role NOT LIKE 'commissioner': the pattern has no wildcard, LIKE ignores case
NotLikeCommissioner(role) == Lower(role) # "commissioner"

\* o.first_name || ' ' || o.last_name
RefereeName(o) == o.first_name \o " " \o o.last_name

\* FROM Officials o JOIN Teams t ON o.game_id = t.game_id WHERE o.role NOT LIKE ...
JoinedRows ==
    {<<o, t>> \in officials \X teams : o.game_id = t.game_id /\ NotLikeCommissioner(o.role)}

\* the joined rows of one GROUP BY Referee group
RefereeRows(name) == {p \in JoinedRows : RefereeName(p[1]) = name}

\* the SELECT list on the group of referee name
RefereeAggRow(name) ==
    LET G == RefereeRows(name)
    IN  [Referee |-> name,
         Games_Officiated |-> Cardinality(G),
         Avg_Fouls_per_Game |-> <<SumOver(G, [p \in G |-> p[2].fouls_total]), Cardinality(G)>>]

RECURSIVE OrderReferees(_)
\* the orders in which the referee names N can be returned: ORDER BY
\* Avg_Fouls_per_Game DESC, equal averages in whatever order the engine emits
\* them
OrderReferees(N) ==
    IF N = {} THEN {<<>>}
    ELSE LET top == {n \in N : \A o \in N :
                       ~RatGt(RefereeAggRow(o).Avg_Fouls_per_Game,
                              RefereeAggRow(n).Avg_Fouls_per_Game)}
         IN  UNION {{<<n>> \o rest : rest \in OrderReferees(N \ {n})} : n \in top}

\* fetch_referee_data() when the query runs: the tables it can return
fetch_referee_data ==
    {[i \in 1..Len(order) |-> RefereeAggRow(order[i])] :
       order \in OrderReferees({RefereeName(p[1]) : p \in JoinedRows})}

\* page "Referee Stats": table Officials is missing
RefereePageNoTable ==
    /\ ~table_exists("Officials")
    /\ referee' = [shown |-> "warning", df |-> <<>>,
                   messages |-> {"'Officials' table not found in the database.",
                                 "No referee data available."}]
    /\ UNCHANGED <<tables, teams, officials, shots, courtImage, boxscore, h2h, chart>>

\* page "Referee Stats": the query names table Teams, which is missing, and
\* pd.read_sql raises
RefereePageQueryFails ==
    /\ table_exists("Officials")
    /\ ~table_exists("Teams")
    /\ referee' = [shown |-> "exception", df |-> <<>>, messages |-> {}]
    /\ UNCHANGED <<tables, teams, officials, shots, courtImage, boxscore, h2h, chart>>

\* page "Referee Stats": the query runs
RefereePage ==
    /\ table_exists("Officials")
    /\ table_exists("Teams")
    /\ \E df \in fetch_referee_data :
           referee' = IF DfEmpty(df)
                      THEN [shown |-> "warning", df |-> df,
                            messages |-> {"No referee data available."}]
                      ELSE [shown |-> "table", df |-> df, messages |-> {}]
    /\ UNCHANGED <<tables, teams, officials, shots, courtImage, boxscore, h2h, chart>>

(***************************************************************************)
(* The referee page: any Officials and Teams tables within the bounds.     *)
(***************************************************************************)
InitReferee ==
    /\ tables \in {{}, {"Officials"}, {"Officials", "Teams"}}
    /\ officials \in IF "Officials" \in tables
                     THEN SubsetsUpTo(OfficialRowPool, MaxOfficialRows) ELSE {{}}
    /\ teams \in IF "Teams" \in tables
                 THEN SubsetsUpTo(RefereeTeamRowPool, MaxTeamRows) ELSE {{}}
    /\ shots = <<>>
    /\ courtImage = TRUE
    /\ boxscore = BoxscoreIdle
    /\ h2h = H2HIdle
    /\ referee = RefereeIdle
    /\ chart = ChartIdle

NextReferee == RefereePageNoTable \/ RefereePageQueryFails \/ RefereePage

SpecReferee == InitReferee /\ [][NextReferee]_vars

(***************************************************************************)
(* Table Shots, fetch_players and generate_shot_chart.                     *)
(***************************************************************************)
\* fixed-point units: 2.8 = 28/10 maps k/14 to a multiple of 1/5, 2.61 =
\* 261/100 maps k/261 to a multiple of 1/100, and 6.75 = 27/4
RawUnitX == 14

RawUnitY == 261

PixelUnit == 4

\* raw x_coord values, in 1/RawUnitX: 685/14 is scaled to 137, 700/14 = 50 to
\* 140 (the basket's x) and 720/14 to 144
RawXs == {685, 700, 720}

\* raw y_coord values, in 1/RawUnitY: 23500/261 is scaled to 26 (the basket's
\* y) and 22825/261 to 32.75
RawYs == {23500, 22825}

\* shot_result as the query returns it: a 0/1 integer or a string; SQLite
\* has no boolean storage class, a boolean is stored and fetched as the
\* integer 1 or 0
IntResult(i) == [kind |-> "int", int |-> i]

StrResult(t) == [kind |-> "str", str |-> t]

BoolResult(b) == IntResult(IF b THEN 1 ELSE 0)

RawResults == {IntResult(1), IntResult(0), StrResult("made"), StrResult("missed"),
               BoolResult(TRUE), BoolResult(FALSE)}

ShotRow(p, x, y, r, a) ==
    [player_name |-> p, x_coord |-> x, y_coord |-> y, shot_result |-> r, actionType |-> a]

\* the rows a Shots table is drawn from: player A's two-pointers from every
\* position in the integer encoding and from one position in every encoding,
\* A's three-pointers from the far positions, one shot of player B, and one
\* shot without a player name
ShotRowPool ==
    {ShotRow("A", x, y, r, "2pt") : x \in RawXs, y \in RawYs, r \in {IntResult(1), IntResult(0)}}
        \cup {ShotRow("A", 720, 23500, r, "2pt") : r \in RawResults}
        \cup {ShotRow("A", x, 22825, r, "3pt") : x \in RawXs, r \in {IntResult(1), IntResult(0)}}
        \cup {ShotRow("B", 720, 23500, IntResult(1), "3pt"),
              ShotRow(NULL, 720, 23500, IntResult(0), "2pt")}

\* fetch_players(): SELECT DISTINCT player_name FROM Shots
fetch_players ==
    IF ~table_exists("Shots") THEN {}
    ELSE {shots[i].player_name : i \in 1..Len(shots)}

\* SELECT ... FROM Shots WHERE player_name = ?  (NULL = NULL is not true)
FetchShots(player) ==
    SelectSeq(shots, LAMBDA r : r.player_name # NULL /\ player # NULL /\ r.player_name = player)

\* astype(str) on one value
AsTypeStr(v) ==
    CASE v.kind = "int" -> (IF v.int = 1 THEN "1" ELSE "0")
      [] v.kind = "str" -> v.str

\* .replace({"1": "made", "0": "missed"}) on one value
ReplaceResultOnlyMade(text) ==
    CASE text = "1" -> "made"
      [] OTHER -> text

ReplaceResult(text) ==
    CASE text = "1" -> "made"
      [] text = "0" -> "missed"
      [] OTHER -> text

\* x_coord * 2.8
ScaleX(x) == (x * 28 * PixelUnit) \div (10 * RawUnitX)

\* 261 - (y_coord * 2.61)
ScaleY(y) == 261 * PixelUnit - (y * 261 * PixelUnit) \div (100 * RawUnitY)

\* (x_coord - 140) ** 2 + (y_coord - 26) ** 2, the square of column distance
DistanceSq(nx, ny) ==
    (nx - 140 * PixelUnit) * (nx - 140 * PixelUnit) + (ny - 26 * PixelUnit) * (ny - 26 * PixelUnit)

\* the squares of the radii 3 and 6.75
PaintRadiusSq == (3 * PixelUnit) * (3 * PixelUnit)

MidRadiusSq == ((675 * PixelUnit) \div 100) * ((675 * PixelUnit) \div 100)

\* one row of df_shots after lines 121-125 and 139
ConvertRow(r) ==
    [x_coord |-> ScaleX(r.x_coord),
     y_coord |-> ScaleY(r.y_coord),
     shot_result |-> ReplaceResult(AsTypeStr(r.shot_result)),
     actionType |-> r.actionType,
     distance_sq |-> DistanceSq(ScaleX(r.x_coord), ScaleY(r.y_coord))]

\* (distance > 3) & (distance < 6.75)
InMidRange(row) == row.distance_sq > PaintRadiusSq /\ row.distance_sq < MidRadiusSq

\* distance <= 3
InPaintStrict(row) == row.distance_sq < PaintRadiusSq

InPaint(row) == row.distance_sq <= PaintRadiusSq

\* the value a division by zero leaves in place of a number
ZeroDivisionError == 0 - 1

\* round(n / d, 0) for n >= 0, d > 0, halves to the even neighbour
RoundHalfEven(n, d) ==
    LET q == n \div d
        r == n % d
    IN  IF 2 * r < d THEN q
        ELSE IF 2 * r > d THEN q + 1
        ELSE IF q % 2 = 0 THEN q ELSE q + 1

\* the values round((made / total) * 100, 1) can take for total > 0, in tenths
\* of a percent. The code rounds the double (made / total) * 100: off a tie
\* that is the exact quotient rounded; on a tie with made / total a multiple
\* of 1/16 the double is exact and the tie goes to the even neighbour; on any
\* other tie the product is inexact and can fall on either side of the tie
RoundedPercent(made, total) ==
    LET q == (made * 1000) \div total
        tie == 2 * ((made * 1000) % total) = total
        exact == (made * 16) % total = 0
    IN  IF tie /\ ~exact THEN {q, q + 1} ELSE {RoundHalfEven(made * 1000, total)}

\* round((made / total) * 100, 1) if total > 0 else 0: the values it can take
PercentageUnguarded(made, total) ==
    IF total = 0 THEN {ZeroDivisionError} ELSE RoundedPercent(made, total)

Percentage(made, total) ==
    IF total > 0 THEN RoundedPercent(made, total) ELSE {0}

\* df_shots[df_shots["shot_result"] == result]: the positions of those rows
WithResult(rows, result) == {i \in 1..Len(rows) : rows[i].shot_result = result}

\* Series.mode()[0]: the smallest of the most frequent values
Mode(values) ==
    LET Count(v) == Cardinality({i \in 1..Len(values) : values[i] = v})
        range == {values[i] : i \in 1..Len(values)}
        modes == {v \in range : \A w \in range : Count(v) >= Count(w)}
    IN  CHOOSE v \in modes : \A w \in modes : v <= w

\* the shooting statistics of lines 128-148 on the converted rows: the records
\* the computation can produce
ShootingStats(rows) ==
    LET three == {i \in 1..Len(rows) : rows[i].actionType = "3pt"}
        mid == {i \in 1..Len(rows) : InMidRange(rows[i])}
        paint == {i \in 1..Len(rows) : InPaint(rows[i])}
        made == WithResult(rows, "made")
    IN  {[total_shots |-> Len(rows),
          made_shots |-> Cardinality(made),
          fg_percentage |-> fg,
          total_3pt_shots |-> Cardinality(three),
          made_3pt_shots |-> Cardinality(three \cap made),
          three_pt_percentage |-> tp,
          mid_range_shots |-> mid,
          paint_shots |-> paint,
          mid_range_fg |-> mr,
          paint_fg |-> pf,
          most_frequent_x |-> Mode([i \in 1..Len(rows) |-> rows[i].x_coord]),
          most_frequent_y |-> Mode([i \in 1..Len(rows) |-> rows[i].y_coord])] :
            fg \in Percentage(Cardinality(made), Len(rows)),
            tp \in Percentage(Cardinality(three \cap made), Cardinality(three)),
            mr \in Percentage(Cardinality(mid \cap made), Cardinality(mid)),
            pf \in Percentage(Cardinality(paint \cap made), Cardinality(paint))}

\* the location as written: round(most_frequent_x, 1), round(most_frequent_y, 1),
\* in tenths of a pixel
ShownLocation(stats) ==
    <<RoundHalfEven(stats.most_frequent_x * 10, PixelUnit),
      RoundHalfEven(stats.most_frequent_y * 10, PixelUnit)>>

\* the shots lie on one line (fewer than three distinct points, or no spread in
\* a dimension, among others): their covariance matrix is singular
KdeSingular(rows) ==
    \A i, j, k \in 1..Len(rows) :
        (rows[j].x_coord - rows[i].x_coord) * (rows[k].y_coord - rows[i].y_coord)
            = (rows[k].x_coord - rows[i].x_coord) * (rows[j].y_coord - rows[i].y_coord)

\* the players offered by the select box
NoPlayers == fetch_players = {}

\* page "Shot Chart": no player to select
ShotChartNoPlayers ==
    /\ NoPlayers
    /\ chart' = [status |-> "no_players", messages |-> {"No player data available."}]
    /\ UNCHANGED <<tables, teams, officials, shots, courtImage, boxscore, h2h, referee>>

\* generate_shot_chart: the court image is missing
ShotChartNoImage ==
    /\ ~courtImage
    /\ \E player \in fetch_players :
         chart' = [status |-> "no_image", player |-> player,
                   messages |-> {"Court image file 'fiba_courtonly.jpg' is missing!"}]
    /\ UNCHANGED <<tables, teams, officials, shots, courtImage, boxscore, h2h, referee>>

\* generate_shot_chart: the query returns no row
ShotChartNoData ==
    /\ courtImage
    /\ \E player \in fetch_players :
         /\ FetchShots(player) = <<>>
         /\ chart' = [status |-> "no_data", player |-> player,
                      messages |-> {"No shot data found"}]
    /\ UNCHANGED <<tables, teams, officials, shots, courtImage, boxscore, h2h, referee>>

\* generate_shot_chart ran to st.pyplot: statistics written, density layer
\* drawn (or left out by sns.kdeplot on singular data), markers plotted
ShotChartRendered ==
    /\ courtImage
    /\ \E player \in fetch_players :
         LET fetched == FetchShots(player)
             rows == [i \in 1..Len(fetched) |-> ConvertRow(fetched[i])]
         IN  /\ fetched # <<>>
             /\ \E stats \in ShootingStats(rows) :
                  chart' = [status |-> "rendered", player |-> player, messages |-> {},
                          rows |-> rows,
                          stats |-> stats,
                          location |-> ShownLocation(stats),
                          heatmap |-> ~KdeSingular(rows),
                          plotted_made |-> WithResult(rows, "made"),
                          plotted_missed |-> WithResult(rows, "missed")]
    /\ UNCHANGED <<tables, teams, officials, shots, courtImage, boxscore, h2h, referee>>

\* generate_shot_chart: sns.kdeplot raises on singular data, after the
\* statistics were written and before any marker is plotted
ShotChartKdeRaises ==
    /\ courtImage
    /\ \E player \in fetch_players :
         LET fetched == FetchShots(player)
             rows == [i \in 1..Len(fetched) |-> ConvertRow(fetched[i])]
         IN  /\ fetched # <<>>
             /\ KdeSingular(rows)
             /\ \E stats \in ShootingStats(rows) :
                  chart' = [status |-> "exception", player |-> player, messages |-> {},
                          rows |-> rows,
                          stats |-> stats,
                          location |-> ShownLocation(stats),
                          heatmap |-> FALSE,
                          plotted_made |-> {},
                          plotted_missed |-> {}]
    /\ UNCHANGED <<tables, teams, officials, shots, courtImage, boxscore, h2h, referee>>

(***************************************************************************)
(* The shot chart page: any Shots table within the bounds.                 *)
(***************************************************************************)
InitShots ==
    /\ tables \in {{}, {"Shots"}}
    /\ shots \in IF "Shots" \in tables THEN SeqsUpTo(ShotRowPool, MaxShots) ELSE {<<>>}
    /\ courtImage \in BOOLEAN
    /\ teams = {}
    /\ officials = {}
    /\ boxscore = BoxscoreIdle
    /\ h2h = H2HIdle
    /\ referee = RefereeIdle
    /\ chart = ChartIdle

NextShots ==
    \/ ShotChartNoPlayers
    \/ ShotChartNoImage
    \/ ShotChartNoData
    \/ ShotChartRendered
    \/ ShotChartKdeRaises

SpecShots == InitShots /\ [][NextShots]_vars

(***************************************************************************)
(* The whole viewer: any page over any database.                           *)
(***************************************************************************)
Init == InitTeams \/ InitReferee \/ InitShots

Next == NextTeams \/ NextReferee \/ NextShots

Spec == Init /\ [][Next]_vars

(***************************************************************************)
(* Claims about the team pages.                                            *)
(***************************************************************************)
\* the (team name, home/away) groups present in table Teams
TeamLocationGroups == {<<r.name, Location(r.tm)>> : r \in teams}

\* the Teams rows of one (team name, home/away) group
TeamLocationRows(k) == {r \in teams : r.name = k[1] /\ Location(r.tm) = k[2]}

\* the mean over the rows G of the numbers col[r], as <<sum, count>>
MeanOf(G, col) == <<SumOver(G, col), Cardinality(G)>>

\* row a of the aggregate table reports the row count and the means of group k
ReportsGroup(a, k) ==
    LET G == TeamLocationRows(k)
    IN  /\ a.Games_Played = Cardinality(G)
        /\ RatEq(a.Avg_Points, MeanOf(G, [r \in G |-> r.p1_score + r.p2_score + r.p3_score + r.p4_score]))
        /\ RatEq(a.Avg_Fouls, MeanOf(G, [r \in G |-> r.fouls_total]))
        /\ RatEq(a.Avg_Free_Throws, MeanOf(G, [r \in G |-> r.free_throws_made]))
        /\ RatEq(a.Avg_Field_Goals, MeanOf(G, [r \in G |-> r.field_goals_made]))
        /\ RatEq(a.Avg_Assists, MeanOf(G, [r \in G |-> r.assists]))
        /\ RatEq(a.Avg_Rebounds, MeanOf(G, [r \in G |-> r.rebounds_total]))
        /\ RatEq(a.Avg_Steals, MeanOf(G, [r \in G |-> r.steals]))
        /\ RatEq(a.Avg_Turnovers, MeanOf(G, [r \in G |-> r.turnovers]))
        /\ RatEq(a.Avg_Blocks, MeanOf(G, [r \in G |-> r.blocks]))

\* C1: whatever table Teams holds, the aggregate table has exactly one row per
\* (team name, home/away) group of the table, and that row reports the number
\* of Teams rows of the group and the mean of every averaged column over them.
C1_OneRowPerTeamAndLocation ==
    boxscore.shown # "none" =>
        LET df == boxscore.df
        IN  /\ Len(df) = Cardinality(TeamLocationGroups)
            /\ \A k \in TeamLocationGroups :
                 LET hits == {i \in 1..Len(df) : df[i].Team = k[1] /\ df[i].Location = k[2]}
                 IN  /\ Cardinality(hits) = 1
                     /\ \A i \in hits : ReportsGroup(df[i], k)

\* team is an identifier without a row in the aggregate table
AbsentTeam(team) == \A r \in teams : ~PdEq(r.name, team)

\* C2: when the two selected teams are equal the comparison reports the
\* identical-teams error, when one of them has no row in the aggregate table
\* it reports the unknown-team error, and in both cases it draws no table and
\* no chart.
C2_SelectionErrorsReported ==
    h2h.outcome \in {"nothing", "error", "charts"} =>
        /\ h2h.team1 = h2h.team2 =>
             /\ h2h.messages # {}
             /\ h2h.outcome # "charts"
             /\ h2h.table1 = NoTable /\ h2h.table2 = NoTable
        /\ (h2h.team1 # h2h.team2 /\ (AbsentTeam(h2h.team1) \/ AbsentTeam(h2h.team2))) =>
             /\ h2h.outcome = "error"
             /\ h2h.messages # {}
             /\ h2h.table1 = NoTable /\ h2h.table2 = NoTable

\* C10: for two distinct teams that both have rows in the aggregate table, each
\* team's table is a single vector with one value per stat name, and after the
\* alignment both tables are indexed by the union of the two teams' stat names;
\* also when a team has a Home row and an Away row.
C10_OneVectorPerTeam ==
    h2h.outcome = "charts" =>
        /\ Len(h2h.table1.columns) = 1
        /\ Len(h2h.table2.columns) = 1
        /\ h2h.table1.index = NumericCols
        /\ h2h.table2.index = NumericCols

(***************************************************************************)
(* Claims about the referee page.                                          *)
(***************************************************************************)
\* the games with box scores that official name worked in a role other than
\* commissioner
GamesOfficiated(name) ==
    {o.game_id : o \in {x \in officials : RefereeName(x) = name /\ Lower(x.role) # "commissioner"}}
        \cap {t.game_id : t \in teams}

\* the fouls called in game g: the fouls of all sides of the game
FoulsInGame(g) ==
    LET sides == {t \in teams : t.game_id = g}
    IN  SumOver(sides, [t \in sides |-> t.fouls_total])

\* C8: the referee table has one row per referee name among the officials that
\* are not commissioners, Games_Officiated is the number of games the referee
\* officiated, each game counted once, and Avg_Fouls_per_Game is the mean over
\* those games of the fouls in the game; commissioners contribute to no row.
C8_RefereeRowsCountGamesOnce ==
    referee.shown \in {"warning", "table"} /\ table_exists("Officials") =>
        LET df == referee.df
            names == {RefereeName(o) : o \in officials}
            working == {n \in names : GamesOfficiated(n) # {}}
        IN  /\ {df[i].Referee : i \in 1..Len(df)} = working
            /\ Len(df) = Cardinality(working)
            /\ \A i \in 1..Len(df) :
                 LET games == GamesOfficiated(df[i].Referee)
                 IN  /\ df[i].Games_Officiated = Cardinality(games)
                     /\ RatEq(df[i].Avg_Fouls_per_Game,
                              <<SumOver(games, [g \in games |-> FoulsInGame(g)]),
                                Cardinality(games)>>)

(***************************************************************************)
(* Claims about the shot chart.                                            *)
(***************************************************************************)
\* the statistics of the last shot chart were computed
StatsShown == chart.status \in {"rendered", "exception"}

\* C3: every percentage the shot chart computes (overall, 3PT, mid-range,
\* paint) is exactly 0 when the shots it is computed over are none, and no
\* percentage is the result of a division by zero.
C3_ZeroAttemptsGiveZeroPercent ==
    StatsShown =>
        LET st == chart.stats
        IN  /\ {st.fg_percentage, st.three_pt_percentage, st.mid_range_fg, st.paint_fg}
                 \cap {ZeroDivisionError} = {}
            /\ st.total_shots = 0 => st.fg_percentage = 0
            /\ st.total_3pt_shots = 0 => st.three_pt_percentage = 0
            /\ st.mid_range_shots = {} => st.mid_range_fg = 0
            /\ st.paint_shots = {} => st.paint_fg = 0

\* a chart of shots none of which is a three-pointer, in the paint or mid-range
C3_Witness ==
    /\ chart.status = "rendered"
    /\ chart.stats.total_shots > 0
    /\ chart.stats.made_shots > 0
    /\ chart.stats.total_3pt_shots = 0
    /\ chart.stats.mid_range_shots = {}
    /\ chart.stats.paint_shots = {}

\* the fetched shots at distance exactly 3 and exactly 6.75 from the basket
AtPaintRadius == {i \in 1..Len(chart.rows) : chart.rows[i].distance_sq = PaintRadiusSq}

AtMidRadius == {i \in 1..Len(chart.rows) : chart.rows[i].distance_sq = MidRadiusSq}

\* C4 as claimed: a shot at distance exactly 3 is counted as mid-range and not
\* as paint, and a shot at distance exactly 6.75 is beyond, not mid-range.
C4_BoundaryShotsGoOutward ==
    StatsShown =>
        /\ \A i \in AtPaintRadius :
             i \in chart.stats.mid_range_shots /\ i \notin chart.stats.paint_shots
        /\ \A i \in AtMidRadius :
             i \notin chart.stats.mid_range_shots /\ i \notin chart.stats.paint_shots

\* C4 as amended: a shot at distance exactly 3 is counted as paint and not as
\* mid-range; a shot at distance exactly 6.75 is in neither zone.
C4_BoundaryShotsAsCoded ==
    StatsShown =>
        /\ \A i \in AtPaintRadius :
             i \in chart.stats.paint_shots /\ i \notin chart.stats.mid_range_shots
        /\ \A i \in AtMidRadius :
             i \notin chart.stats.mid_range_shots /\ i \notin chart.stats.paint_shots

\* a chart with a shot on each of the two radii
C4_Witness ==
    /\ chart.status = "rendered"
    /\ AtPaintRadius # {}
    /\ AtMidRadius # {}

\* C5: the zone subsets are pairwise disjoint and together hold
\* every shot, so the zone attempt counts add up to the total.
C5_ZonesPartitionShots ==
    StatsShown =>
        LET st == chart.stats
        IN  /\ st.mid_range_shots \cap st.paint_shots = {}
            /\ st.mid_range_shots \cup st.paint_shots = 1..Len(chart.rows)
            /\ Cardinality(st.mid_range_shots) + Cardinality(st.paint_shots) = st.total_shots

\* C6: whatever the encoding of shot_result (boolean, 0/1 integer, 'made' /
\* 'missed'), after the conversion every shot is 'made' or 'missed': the shots
\* counted as made plus the shots plotted as missed are all the shots fetched.
\* A boolean reaches the conversion as the integer SQLite stored for it.
C6_EveryShotMadeOrMissed ==
    chart.status = "rendered" =>
        /\ \A i \in 1..Len(chart.rows) : chart.rows[i].shot_result \in {"made", "missed"}
        /\ chart.stats.made_shots = Cardinality(chart.plotted_made)
        /\ chart.stats.made_shots + Cardinality(chart.plotted_missed) = chart.stats.total_shots

\* a chart of a made and a missed shot fetched as integers together with a
\* shot fetched as a string
C6_Witness ==
    /\ chart.status = "rendered"
    /\ \E i, j \in 1..Len(shots) :
         /\ shots[i].player_name = chart.player
         /\ shots[j].player_name = chart.player
         /\ shots[i].shot_result \in {BoolResult(TRUE), BoolResult(FALSE)}
         /\ shots[j].shot_result \in {StrResult("made"), StrResult("missed")}
    /\ chart.plotted_made # {}
    /\ chart.plotted_missed # {}

\* the number of fetched shots at the scaled location of shot i
ShotsAt(i) ==
    Cardinality({j \in 1..Len(chart.rows) :
                   /\ chart.rows[j].x_coord = chart.rows[i].x_coord
                   /\ chart.rows[j].y_coord = chart.rows[i].y_coord})

\* C7: the most frequent shot location is the scaled (x, y) pair that occurs
\* most often among the shots, and among pairs of equal count the one that
\* comes first in row order.
C7_MostFrequentLocationIsModePair ==
    StatsShown =>
        LET n == Len(chart.rows)
            best == CHOOSE i \in 1..n :
                      /\ \A j \in 1..n : ShotsAt(i) >= ShotsAt(j)
                      /\ \A j \in 1..(i - 1) : ShotsAt(j) < ShotsAt(i)
        IN  /\ chart.stats.most_frequent_x = chart.rows[best].x_coord
            /\ chart.stats.most_frequent_y = chart.rows[best].y_coord

\* the shots are degenerate for a density estimate: fewer than two distinct
\* points, or no spread in one dimension
DegenerateShots(rows) ==
    \/ \A i, j \in 1..Len(rows) : rows[i].x_coord = rows[j].x_coord
    \/ \A i, j \in 1..Len(rows) : rows[i].y_coord = rows[j].y_coord

\* C9: on shots that are degenerate for density estimation the shot chart does
\* not raise: the statistics are produced, the made and missed markers are
\* plotted, and only the density layer is left out, which is signalled
\* (InsufficientDataForDensity).
C9_DegenerateShotsOnlyLoseHeatmap ==
    (StatsShown /\ DegenerateShots(chart.rows)) =>
        /\ chart.status = "rendered"
        /\ chart.plotted_made = {i \in 1..Len(chart.rows) : chart.rows[i].shot_result = "made"}
        /\ chart.plotted_missed = {i \in 1..Len(chart.rows) : chart.rows[i].shot_result = "missed"}
        /\ ~chart.heatmap
        /\ chart.messages # {}

====
